---- MODULE Spec2Model ----
(***************************************************************************)
(* Construction / binding / hook protocol of the native-windows-gui        *)
(* controls ImageFrame, RichTextBox and MessageWindow.                     *)
(*                                                                         *)
(* Window styles are modelled as sets of bit positions of the u32 style    *)
(* word (bitwise OR is set union, `a & b == b` is `b \subseteq a`).        *)
(* Window handles are numbers; 0 is ControlHandle::NoHandle.               *)
(***************************************************************************)
EXTENDS Integers, Sequences, FiniteSets, TLC

\* ------------------------------------------------------------------ bounds
\* Number of windows the window system creates before it only fails.
MaxWindows == 2
\* Bits of the scaled-down u32 / 32-bit isize of a selection position.
WordBits == 3

\* --------------------------------------------------------- winapi constants
WS_VISIBLE == {28}
WS_DISABLED == {27}
WS_CHILD == {30}
WS_BORDER == {23}
SS_NOTIFY == {8}
SS_CENTERIMAGE == {9}
SS_BITMAP == {1, 2, 3}
SS_ICON == {0, 1}
ES_MULTILINE == {2}
ES_AUTOVSCROLL == {6}
ES_AUTOHSCROLL == {7}
\* The bits of a static control's style that select its content type.
SS_TYPEMASK == {0, 1, 2, 3, 4}
IMAGE_BITMAP == 0
IMAGE_ICON == 1

\* ------------------------------------------------------------------- values
NoHandle == 0
None == 0
\* The windows that exist before any control is built, and the handles the
\* window system gives to the windows it creates for controls.
Parents == {1, 2}
FirstChild == Cardinality(Parents) + 1
ChildHwnds == FirstChild .. (FirstChild + MaxWindows - 1)
\* The background colours a caller asks for (two RGB triples).
Colors == {1, 2}
BitmapHandles == {11}
IconHandles == {21}
FontHandles == {31}
Texts == {"", "a"}
Limits == {0, 10}
Messages == {"WM_CTLCOLORSTATIC", "WM_COMMAND"}

ImageFrames == {"frame1", "frame2"}
RichTextBoxes == {"rich1"}
MessageWindows == {"msgwin1"}
Controls == ImageFrames \cup RichTextBoxes \cup MessageWindows

ControlType(c) ==
    IF c \in ImageFrames THEN "ImageFrame"
    ELSE IF c \in RichTextBoxes THEN "RichTextBox"
    ELSE "MessageWindow"

\* Option<Flags>: `some` tells whether the builder's flags() was called.
NoFlags == [some |-> FALSE, bits |-> {}]
SomeFlags(s) == [some |-> TRUE, bits |-> s]
ImageFrameFlags == {NoFlags} \cup {SomeFlags(s) : s \in SUBSET (WS_VISIBLE \cup WS_DISABLED)}
RichTextBoxFlags ==
    {NoFlags} \cup
    {SomeFlags(s) : s \in {{}, ES_AUTOVSCROLL, ES_AUTOHSCROLL \cup WS_DISABLED,
                           ES_AUTOVSCROLL \cup ES_AUTOHSCROLL \cup WS_VISIBLE \cup WS_DISABLED}}

VARIABLES
    handle,     \* handle[c]: the control's ControlHandle (NoHandle when blank)
    alive,      \* alive[c]: the control has not been dropped
    handler0,   \* handler0[c]: an ImageFrame's Option<RawEventHandler>
    windows,    \* the window system's windows: hwnd -> [class, parent, owner]
    registry,   \* the raw event handlers bound to windows
    brushes,    \* the GDI brushes that are allocated
    edit,       \* edit[c]: text length and selection of a RichTextBox's window
    last        \* what the last operation was given, returned and called

vars == <<handle, alive, handler0, windows, registry, brushes, edit, last>>

\* ------------------------------------------------------------ last operation
NoArgs ==
    [parent |-> None, flags |-> NoFlags, bitmap |-> None, icon |-> None,
     bg |-> None, text |-> "", limit |-> 0, readonly |-> FALSE, font |-> None,
     op |-> "", msg |-> "", l |-> 0, r |-> <<0, 0>>, target |-> "",
     answers |-> <<0, 0>>, is_bitmap |-> FALSE]
NoCreate ==
    [called |-> FALSE, class |-> "", forced |-> {}, flags |-> {}, style |-> {},
     parent |-> None, text |-> ""]
NoOp ==
    [kind |-> "none", ctrl |-> "", args |-> NoArgs, result |-> "", who |-> "",
     before |-> NoHandle, create |-> NoCreate, trace |-> <<>>, hooks |-> {},
     responses |-> {}, ret |-> <<0, 0>>]

\* The record of a build that returned outcome r into control c.
Built(c, a, r, before) ==
    [kind |-> "build", ctrl |-> c, args |-> a, result |-> r.result, who |-> r.who,
     before |-> before, create |-> r.create, trace |-> r.trace, hooks |-> r.regs,
     responses |-> {}, ret |-> <<0, 0>>]

\* A native call made through the window helper or the hook facility.
Call(name, hwnd, msg, w, l) == [call |-> name, hwnd |-> hwnd, msg |-> msg, w |-> w, l |-> l]

\* The outcome of a method of a control: it panicked, or it made these calls.
Panic(why) == [panic |-> TRUE, why |-> why, calls |-> <<>>, ret |-> <<0, 0>>]
Done(calls) == [panic |-> FALSE, why |-> "", calls |-> calls, ret |-> <<0, 0>>]
Returned(calls, ret) == [panic |-> FALSE, why |-> "", calls |-> calls, ret |-> ret]

\* The two NOT_BOUND constants, of image_frame.rs and of rich_text_box.rs.
ImageFrame_NOT_BOUND == "ImageFrame is not yet bound to a winapi object"
RichTextBox_NOT_BOUND == "RichTextBox is not yet bound to a winapi object"

\* ControlHandle::blank
blank(h) == h = NoHandle


\* ------------------------------------------------- window system (collaborator)
\* The handle the window system gives to the next window it creates.
NewHwnd(wins) == FirstChild + Cardinality(DOMAIN wins)
CanCreate == Cardinality(DOMAIN windows) < MaxWindows

\* ControlBase::build_hwnd()...build(): creates a window whose style is the
\* flags OR-combined with the forced flags, or fails when the system does.
build_hwnd(wins, class, forced, flags, parent, text, ok) ==
    LET req == [called |-> TRUE, class |-> class, forced |-> forced, flags |-> flags,
                style |-> flags \cup forced, parent |-> parent, text |-> text]
    IN [ok |-> ok, hwnd |-> IF ok THEN NewHwnd(wins) ELSE NoHandle, create |-> req]

\* create_message_window(): a message-only window has no parent.
create_message_window(wins, ok) ==
    LET req == [called |-> TRUE, class |-> "NWG_MESSAGE", forced |-> {}, flags |-> {},
                style |-> {}, parent |-> None, text |-> ""]
    IN [ok |-> ok, hwnd |-> IF ok THEN NewHwnd(wins) ELSE NoHandle, create |-> req]

\* The window table after the window system created window h for control c.
AddWindow(wins, h, req, c) ==
    [x \in DOMAIN wins \cup {h} |->
        IF x = h THEN [class |-> req.class, parent |-> req.parent, owner |-> c]
        ELSE wins[x]]

\* wh::get_window_parent
get_window_parent(wins, h) == wins[h].parent

\* CreateSolidBrush: a brush that is not allocated yet, made for window h (its
\* colour is in the call that made it).
CreateSolidBrush(brs, color, h) ==
    [id |-> 1 + Cardinality(brs), for |-> h]

\* bind_raw_event_handler(parent, id, callback): the RawEventHandler token.
NoHandler == [handle |-> NoHandle, id |-> 0]
bind_raw_event_handler(parent, id) == [handle |-> parent, id |-> id]

\* unbind_raw_event_handler(token): the registry without the token's callback.
unbind_raw_event_handler(regs, token) ==
    {r \in regs : ~(r.parent = token.handle /\ r.id = token.id)}

\* The text length and the selection of a rich edit window just created with
\* text t: the caret is at the start.
NewEdit(t) == [len |-> Len(t), lo |-> 0, hi |-> 0]
NoEdit == [len |-> 0, lo |-> 0, hi |-> 0]
Min(a, b) == IF a <= b THEN a ELSE b
Max(a, b) == IF a >= b THEN a ELSE b

\* EM_SETSEL(w, l) as the window system documents it: a start of -1 drops the
\* selection, an end of -1 (any negative end) means the end of the text, the
\* positions are clamped to the text and kept in order.
EM_SETSEL(ed, w, l) ==
    IF w = -1 THEN [ed EXCEPT !.lo = ed.hi]
    ELSE LET s == Min(w, ed.len)
             e == IF l < 0 THEN ed.len ELSE Min(l, ed.len)
         IN [ed EXCEPT !.lo = Min(s, e), !.hi = Max(s, e)]

\* EM_GETSEL: the two DWORDs the window system writes through the pointers.
EM_GETSEL(ed) == <<ed.lo, ed.hi>>

\* The window's text and selection after it received a native call.
WindowProc(ed, call) ==
    IF call.call = "set_window_text" THEN NewEdit(call.msg)
    ELSE IF call.call = "send_message" /\ call.msg = "EM_SETSEL"
         THEN EM_SETSEL(ed, call.w, call.l)
    ELSE ed

RECURSIVE Receive(_, _)
Receive(ed, calls) ==
    IF calls = <<>> THEN ed ELSE Receive(WindowProc(ed, Head(calls)), Tail(calls))

\* --------------------------------------------------------------- ImageFrame
ImageFrame_class_name == "STATIC"
ImageFrame_flags == WS_VISIBLE
ImageFrame_forced_flags == WS_CHILD \cup SS_NOTIFY \cup SS_CENTERIMAGE

ImageFrame_set_bitmap(h, image) ==
    IF blank(h) THEN Panic(ImageFrame_NOT_BOUND)
    ELSE Done(<<Call("send_message", h, "STM_SETIMAGE", IMAGE_BITMAP, image)>>)

ImageFrame_set_icon(h, image) ==
    IF blank(h) THEN Panic(ImageFrame_NOT_BOUND)
    ELSE Done(<<Call("send_message", h, "STM_SETIMAGE", IMAGE_ICON, image)>>)

\* The two queries ImageFrame::image sends before it classifies the answers.
ImageFrame_image(h) ==
    IF blank(h) THEN Panic(ImageFrame_NOT_BOUND)
    ELSE Done(<<Call("send_message", h, "STM_GETIMAGE", IMAGE_BITMAP, 0),
                Call("send_message", h, "STM_GETIMAGE", IMAGE_ICON, 0)>>)

\* rh::is_bitmap is asked only when the bitmap query answered a handle.
ImageFrame_image_type_check(h, bitmap_handle) ==
    IF bitmap_handle # 0 THEN <<Call("is_bitmap", h, "", bitmap_handle, 0)>> ELSE <<>>

\* An image() whose second branch is an `if` of its own instead of `else if`.
ImageFrame_image_outputs_no_else(h, bitmap, icon, bitmap_handle, icon_handle, is_bitmap) ==
    IF blank(h) THEN [Panic(ImageFrame_NOT_BOUND) EXCEPT !.ret = <<bitmap, icon>>]
    ELSE Returned(ImageFrame_image(h).calls \o ImageFrame_image_type_check(h, bitmap_handle),
                  <<IF bitmap_handle # 0 /\ is_bitmap THEN bitmap_handle ELSE None,
                    IF icon_handle # 0 THEN icon_handle ELSE None>>)

\* ImageFrame::image called with the outputs holding `bitmap` and `icon`, when
\* the two STM_GETIMAGE queries answer bitmap_handle and icon_handle and
\* rh::is_bitmap answers is_bitmap: the calls made and what the outputs hold
\* afterwards, <<*bitmap, *icon>>. A panic leaves the outputs as they were.
ImageFrame_image_outputs(h, bitmap, icon, bitmap_handle, icon_handle, is_bitmap) ==
    LET q == ImageFrame_image(h)
        cleared == <<None, None>>
    IN IF q.panic THEN [q EXCEPT !.ret = <<bitmap, icon>>]
       ELSE Returned(q.calls \o ImageFrame_image_type_check(h, bitmap_handle),
                     IF bitmap_handle # 0 /\ is_bitmap THEN <<bitmap_handle, cleared[2]>>
                     ELSE IF icon_handle # 0 THEN <<cleared[1], icon_handle>>
                     ELSE cleared)

\* enabled, set_enabled, visible, set_visible, size, set_size, position,
\* set_position: each guards the handle, then calls one window helper.
ImageFrameHelper(op) ==
    CASE op = "enabled" -> "get_window_enabled"
      [] op = "set_enabled" -> "set_window_enabled"
      [] op = "visible" -> "get_window_visibility"
      [] op = "set_visible" -> "set_window_visibility"
      [] op = "size" -> "get_window_size"
      [] op = "set_size" -> "set_window_size"
      [] op = "position" -> "get_window_position"
      [] op = "set_position" -> "set_window_position"

\* The helper is called with the handle and the method's arguments w and l
\* (0 where the method has none; a bool is 0 or 1).
ImageFrame_window_helper(h, op, w, l) ==
    IF blank(h) THEN Panic(ImageFrame_NOT_BOUND)
    ELSE Done(<<Call(ImageFrameHelper(op), h, "", w, l)>>)

\* `v as usize` of a bool argument, which the caller gives as 0 or 1.
as_bool(v) == IF v # 0 THEN 1 ELSE 0

ImageFrameOps ==
    {"set_bitmap", "set_icon", "image", "enabled", "set_enabled", "visible",
     "set_visible", "size", "set_size", "position", "set_position"}

ImageFrameAccessor(op, h, v) ==
    CASE op = "set_bitmap" -> ImageFrame_set_bitmap(h, v)
      [] op = "set_icon" -> ImageFrame_set_icon(h, v)
      [] op = "image" -> ImageFrame_image(h)
      [] op \in {"set_enabled", "set_visible"} -> ImageFrame_window_helper(h, op, as_bool(v), 0)
      [] op \in {"set_size", "set_position"} -> ImageFrame_window_helper(h, op, v, v)
      [] OTHER -> ImageFrame_window_helper(h, op, 0, 0)

\* Option<response> of a raw event handler callback.
NotHandled == [some |-> FALSE, value |-> 0]
Some(v) == [some |-> TRUE, value |-> v]

\* A callback that answers for every child of the parent.
hook_callback_any_child(reg, msg, l) ==
    IF msg = "WM_CTLCOLORSTATIC" THEN Some(reg.brush) ELSE NotHandled

\* The closure hook_background_color binds: it captured `handle` and `brush`.
hook_callback(reg, msg, l) ==
    IF msg = "WM_CTLCOLORSTATIC" /\ l = reg.child THEN Some(reg.brush)
    ELSE NotHandled

NoHook == [panic |-> FALSE, calls |-> <<>>, regs |-> {}, brushes |-> {}, handler |-> NoHandler]

\* ImageFrame::hook_background_color on handle h, with the window table and the
\* allocated brushes it finds: the registration and the brush it adds, and the
\* token it stores in handler0.
ImageFrame_hook_background_color(wins, brs, h, color) ==
    IF blank(h)
    THEN [panic |-> TRUE, calls |-> <<>>, regs |-> {}, brushes |-> {}, handler |-> NoHandler]
    ELSE LET parent == get_window_parent(wins, h)
             brush == CreateSolidBrush(brs, color, h)
         IN [panic |-> FALSE,
             calls |-> <<Call("get_window_parent", h, "", 0, 0),
                         Call("CreateSolidBrush", h, "", color, 0),
                         Call("bind_raw_event_handler", parent, "", h, brush.id)>>,
             regs |-> {[parent |-> parent, id |-> h, child |-> h, brush |-> brush.id]},
             brushes |-> {brush},
             handler |-> bind_raw_event_handler(parent, h)]

\* flags.map(|f| f.bits()).unwrap_or(out.flags())
ImageFrameBaseFlags(flags) == IF flags.some THEN flags.bits ELSE ImageFrame_flags

\* The content-mode flag build adds to the flags.
ImageFrameContentFlag(bitmap, icon) == IF icon # None THEN SS_ICON ELSE SS_BITMAP

\* The post-creation content step of build.
ImageFrameBuildContent(h, bitmap, icon) ==
    IF bitmap # None THEN ImageFrame_set_bitmap(h, bitmap)
    ELSE IF icon # None THEN ImageFrame_set_icon(h, icon)
    ELSE Done(<<>>)

\* Err(..) returned by a build: NwgError::no_parent(who), or the window
\* system's error as it came.
BuildErr(why, who, req) ==
    [result |-> why, who |-> who, assigned |-> FALSE, hwnd |-> NoHandle, create |-> req,
     trace |-> <<>>, regs |-> {}, brushes |-> {}, handler |-> NoHandler, hooked |-> FALSE]

\* build once the window exists: the content is set, then the background
\* colour is hooked.
ImageFrameConfigure(wins, brs, a, cw) ==
    LET h == cw.hwnd
        wins2 == AddWindow(wins, h, cw.create, "")
        s1 == ImageFrameBuildContent(h, a.bitmap, a.icon)
        s2 == IF a.bg # None /\ ~s1.panic
              THEN ImageFrame_hook_background_color(wins2, brs, h, a.bg)
              ELSE NoHook
    IN [result |-> IF s1.panic \/ s2.panic THEN "Panic" ELSE "Ok",
        who |-> "", assigned |-> TRUE, hwnd |-> h, create |-> cw.create,
        trace |-> s1.calls \o s2.calls,
        regs |-> s2.regs, brushes |-> s2.brushes, handler |-> s2.handler,
        hooked |-> (a.bg # None /\ ~s1.panic /\ ~s2.panic)]

\* A build that assigns out.handle whatever the window system returned
\* (unwrap_or_default() in place of `?`).
ImageFrameCreate_unwrap_or_default(wins, brs, a, flags, ok) ==
    LET cw == build_hwnd(wins, ImageFrame_class_name, ImageFrame_forced_flags,
                         flags, a.parent, "", ok)
    IN IF ~cw.ok THEN [BuildErr("CreateFailed", "", cw.create) EXCEPT !.assigned = TRUE]
       ELSE ImageFrameConfigure(wins, brs, a, cw)

\* build after the parent is known: the window is created, `?` returns the
\* window system's error before out.handle is assigned, then the window is
\* configured.
ImageFrameCreate(wins, brs, a, flags, ok) ==
    LET cw == build_hwnd(wins, ImageFrame_class_name, ImageFrame_forced_flags,
                         flags, a.parent, "", ok)
    IN IF ~cw.ok THEN BuildErr("CreateFailed", "", cw.create)
       ELSE ImageFrameConfigure(wins, brs, a, cw)

\* ImageFrameBuilder::build with the builder's fields a, when the window system
\* succeeds (ok) or fails: what it returns, calls and changes.
ImageFrameBuilder_build(wins, brs, a, ok) ==
    LET flags == ImageFrameBaseFlags(a.flags) \cup ImageFrameContentFlag(a.bitmap, a.icon)
    IN IF a.parent = None THEN BuildErr("MissingParent", "ImageFrame", NoCreate)
       ELSE ImageFrameCreate(wins, brs, a, flags, ok)

ImageFrameArgs ==
    [parent : {None} \cup Parents, flags : ImageFrameFlags,
     bitmap : {None} \cup BitmapHandles, icon : {None} \cup IconHandles,
     bg : {None} \cup Colors]

WithArgs(a) == [x \in DOMAIN NoArgs |-> IF x \in DOMAIN a THEN a[x] ELSE NoArgs[x]]

ImageFrameBuild(c, a, ok) ==
    /\ c \in ImageFrames
    /\ alive[c]
    /\ ok => CanCreate
    /\ LET r == ImageFrameBuilder_build(windows, brushes, a, ok)
       IN /\ handle' = IF r.assigned THEN [handle EXCEPT ![c] = r.hwnd] ELSE handle
          /\ windows' = IF r.hwnd # NoHandle THEN AddWindow(windows, r.hwnd, r.create, c)
                        ELSE windows
          /\ registry' = registry \cup r.regs
          /\ brushes' = brushes \cup r.brushes
          /\ handler0' = IF r.hooked THEN [handler0 EXCEPT ![c] = r.handler] ELSE handler0
          /\ last' = Built(c, WithArgs(a), r, handle[c])
    /\ UNCHANGED <<alive, edit>>


\* -------------------------------------------------------------- RichTextBox
RichTextBox_class_name == "RICHEDIT50W"
RichTextBox_flags == WS_VISIBLE \cup ES_AUTOVSCROLL \cup ES_AUTOHSCROLL
RichTextBox_forced_flags == WS_BORDER \cup WS_CHILD \cup ES_MULTILINE

\* The methods that guard the handle and then send one window message.
RichTextBoxMessage(op) ==
    CASE op = "limit" -> "EM_GETLIMITTEXT"
      [] op = "set_limit" -> "EM_SETLIMITTEXT"
      [] op = "modified" -> "EM_GETMODIFY"
      [] op = "set_modified" -> "EM_SETMODIFY"
      [] op = "undo" -> "EM_UNDO"
      [] op = "selection" -> "EM_GETSEL"
      [] op = "set_selection" -> "EM_SETSEL"
      [] op = "len" -> "EM_LINELENGTH"
      [] op = "set_readonly" -> "EM_SETREADONLY"

RichTextBox_send_message(h, op, w, l) ==
    IF blank(h) THEN Panic(RichTextBox_NOT_BOUND)
    ELSE Done(<<Call("send_message", h, RichTextBoxMessage(op), w, l)>>)

\* The methods that guard the handle and then call one window helper.
RichTextBoxHelper(op) ==
    CASE op = "font" -> "get_window_font"
      [] op = "set_font" -> "set_window_font"
      [] op = "readonly" -> "get_style"
      [] op = "focus" -> "get_focus"
      [] op = "set_focus" -> "set_focus"
      [] op = "enabled" -> "get_window_enabled"
      [] op = "set_enabled" -> "set_window_enabled"
      [] op = "visible" -> "get_window_visibility"
      [] op = "set_visible" -> "set_window_visibility"
      [] op = "size" -> "get_window_size"
      [] op = "set_size" -> "set_window_size"
      [] op = "position" -> "get_window_position"
      [] op = "set_position" -> "set_window_position"
      [] op = "text" -> "get_window_text"

RichTextBox_window_helper(h, op, w, l) ==
    IF blank(h) THEN Panic(RichTextBox_NOT_BOUND)
    ELSE Done(<<Call(RichTextBoxHelper(op), h, "", w, l)>>)

\* set_text without its guard clause.
RichTextBox_set_text_unguarded(h, t) == Done(<<Call("set_window_text", h, t, 0, 0)>>)

\* set_text: the text travels in the call's msg field.
RichTextBox_set_text(h, t) ==
    IF blank(h) THEN Panic(RichTextBox_NOT_BOUND)
    ELSE Done(<<Call("set_window_text", h, t, 0, 0)>>)

RichTextBox_clear(h) == RichTextBox_set_text(h, "")

\* The scaled-down u32: 0 .. WordSize - 1.
WordSize == 2 ^ WordBits
\* The pointer widths a build may target: "narrow" has 32-bit usize and isize
\* (as wide as u32), "wide" has 64-bit ones.
Targets == {"narrow", "wide"}
\* `v as usize`: the same number; on a narrow target u32::MAX is usize::MAX,
\* which the window system reads as -1 and is written -1 here.
as_usize(v, tg) == IF tg = "narrow" /\ v = WordSize - 1 THEN -1 ELSE v
\* `v as isize`: the same number on a wide target, the two's complement
\* reading of the word on a narrow one.
as_isize(v, tg) == IF tg = "narrow" /\ v >= WordSize \div 2 THEN v - WordSize ELSE v

\* selection() handing back the two outputs in the wrong order.
RichTextBox_selection_swapped(h, ed) ==
    IF blank(h) THEN Panic(RichTextBox_NOT_BOUND)
    ELSE LET out == EM_GETSEL(ed)
         IN Returned(<<Call("send_message", h, "EM_GETSEL", 0, 0)>>, <<out[2], out[1]>>)

\* selection(): out1 and out2 start at 0 and are written by EM_GETSEL.
RichTextBox_selection(h, ed) ==
    IF blank(h) THEN Panic(RichTextBox_NOT_BOUND)
    ELSE LET out == EM_GETSEL(ed)
         IN Returned(<<Call("send_message", h, "EM_GETSEL", 0, 0)>>, <<out[1], out[2]>>)

\* set_selection(r) with r = <<start, end>>.
RichTextBox_set_selection(h, r, tg) ==
    IF blank(h) THEN Panic(RichTextBox_NOT_BOUND)
    ELSE Done(<<Call("send_message", h, "EM_SETSEL", as_usize(r[1], tg), as_isize(r[2], tg))>>)

RichTextBox_set_limit(h, limit) == RichTextBox_send_message(h, "set_limit", limit, 0)
RichTextBox_set_readonly(h, r) == RichTextBox_send_message(h, "set_readonly", IF r THEN 1 ELSE 0, 0)
RichTextBox_set_font(h, font) == RichTextBox_window_helper(h, "set_font", font, 0)
RichTextBox_set_modified(h, e) == RichTextBox_send_message(h, "set_modified", IF e THEN 1 ELSE 0, 0)

RichTextBoxMessageOps ==
    {"limit", "set_limit", "modified", "set_modified", "undo", "selection",
     "set_selection", "len", "set_readonly"}
RichTextBoxHelperOps ==
    {"font", "set_font", "readonly", "focus", "set_focus", "enabled", "set_enabled",
     "visible", "set_visible", "size", "set_size", "position", "set_position", "text"}
RichTextBoxOps == RichTextBoxMessageOps \cup RichTextBoxHelperOps \cup {"set_text", "clear"}

RichTextBoxAccessor(op, h, v, t, r, tg, ed) ==
    CASE op = "set_text" -> RichTextBox_set_text(h, t)
      [] op = "clear" -> RichTextBox_clear(h)
      [] op = "selection" -> RichTextBox_selection(h, ed)
      [] op = "set_selection" -> RichTextBox_set_selection(h, r, tg)
      [] op = "set_limit" -> RichTextBox_set_limit(h, v)
      [] op = "set_modified" -> RichTextBox_set_modified(h, v # 0)
      [] op = "set_readonly" -> RichTextBox_set_readonly(h, v # 0)
      [] op \in RichTextBoxMessageOps -> RichTextBox_send_message(h, op, 0, 0)
      [] op = "set_font" -> RichTextBox_set_font(h, v)
      [] op \in {"set_enabled", "set_visible"} -> RichTextBox_window_helper(h, op, as_bool(v), 0)
      [] op \in {"set_size", "set_position"} -> RichTextBox_window_helper(h, op, v, v)
      [] OTHER -> RichTextBox_window_helper(h, op, 0, 0)

\* Explicit flags OR-combined with the defaults instead of replacing them.
RichTextBoxBaseFlags_or_default(flags) == flags.bits \cup RichTextBox_flags

\* flags.map(|f| f.bits()).unwrap_or(out.flags())
RichTextBoxBaseFlags(flags) == IF flags.some THEN flags.bits ELSE RichTextBox_flags

\* Post-creation steps that set the font before the limit and the read-only
\* toggle.
RichTextBoxBuildSteps_font_first(h, a) ==
    LET s1 == IF a.font # None THEN RichTextBox_set_font(h, a.font) ELSE Done(<<>>)
        s2 == IF s1.panic THEN s1
              ELSE IF a.limit > 0 THEN RichTextBox_set_limit(h, a.limit) ELSE Done(<<>>)
        s3 == IF s2.panic THEN s2
              ELSE IF a.readonly THEN RichTextBox_set_readonly(h, a.readonly) ELSE Done(<<>>)
    IN [panic |-> s3.panic, calls |-> s1.calls \o s2.calls \o s3.calls]

\* The post-creation steps of RichTextBoxBuilder::build on the new handle.
RichTextBoxBuildSteps(h, a) ==
    LET s1 == IF a.limit > 0 THEN RichTextBox_set_limit(h, a.limit) ELSE Done(<<>>)
        s2 == IF s1.panic THEN s1
              ELSE IF a.readonly THEN RichTextBox_set_readonly(h, a.readonly) ELSE Done(<<>>)
        s3 == IF s2.panic THEN s2
              ELSE IF a.font # None THEN RichTextBox_set_font(h, a.font) ELSE Done(<<>>)
    IN [panic |-> s3.panic, calls |-> s1.calls \o s2.calls \o s3.calls]

\* build after the parent is known: the window is created with the initial
\* text, `?` returns the window system's error before out.handle is assigned,
\* then the limit, the read-only toggle and the font are set.
RichTextBoxCreate(wins, a, flags, ok) ==
    LET cw == build_hwnd(wins, RichTextBox_class_name, RichTextBox_forced_flags,
                         flags, a.parent, a.text, ok)
    IN IF ~cw.ok THEN BuildErr("CreateFailed", "", cw.create)
       ELSE LET s == RichTextBoxBuildSteps(cw.hwnd, a)
            IN [result |-> IF s.panic THEN "Panic" ELSE "Ok",
                who |-> "", assigned |-> TRUE, hwnd |-> cw.hwnd, create |-> cw.create,
                trace |-> s.calls, regs |-> {}, brushes |-> {},
                handler |-> NoHandler, hooked |-> FALSE]

\* A build that creates the window without looking at the parent.
RichTextBoxBuilder_build_no_parent_check(wins, a, ok) ==
    RichTextBoxCreate(wins, a, RichTextBoxBaseFlags(a.flags), ok)

RichTextBoxBuilder_build(wins, a, ok) ==
    LET flags == RichTextBoxBaseFlags(a.flags)
    IN IF a.parent = None THEN BuildErr("MissingParent", "RichTextBox", NoCreate)
       ELSE RichTextBoxCreate(wins, a, flags, ok)

RichTextBoxArgs ==
    [parent : {None} \cup Parents, flags : RichTextBoxFlags, text : Texts,
     limit : Limits, readonly : BOOLEAN, font : {None} \cup FontHandles]

RichTextBoxBuild(c, a, ok) ==
    /\ c \in RichTextBoxes
    /\ alive[c]
    /\ ok => CanCreate
    /\ LET r == RichTextBoxBuilder_build(windows, a, ok)
       IN /\ handle' = IF r.assigned THEN [handle EXCEPT ![c] = r.hwnd] ELSE handle
          /\ windows' = IF r.hwnd # NoHandle THEN AddWindow(windows, r.hwnd, r.create, c)
                        ELSE windows
          /\ edit' = IF r.hwnd # NoHandle THEN [edit EXCEPT ![c] = NewEdit(a.text)] ELSE edit
          /\ last' = Built(c, WithArgs(a), r, handle[c])
    /\ UNCHANGED <<alive, handler0, registry, brushes>>

\* ------------------------------------------------------------ MessageWindow
\* A build that assigns out.handle whatever create_message_window returned.
MessageWindowBuilder_build_unwrap_or_default(wins, ok) ==
    LET cw == create_message_window(wins, ok)
    IN [result |-> IF cw.ok THEN "Ok" ELSE "CreateFailed", who |-> "", assigned |-> TRUE,
        hwnd |-> cw.hwnd, create |-> cw.create, trace |-> <<>>, regs |-> {},
        brushes |-> {}, handler |-> NoHandler, hooked |-> FALSE]

MessageWindowBuilder_build(wins, ok) ==
    LET cw == create_message_window(wins, ok)
    IN IF ~cw.ok THEN BuildErr("CreateFailed", "", cw.create)
       ELSE [result |-> "Ok", who |-> "", assigned |-> TRUE, hwnd |-> cw.hwnd, create |-> cw.create,
             trace |-> <<>>, regs |-> {}, brushes |-> {}, handler |-> NoHandler,
             hooked |-> FALSE]

MessageWindowBuild(c, ok) ==
    /\ c \in MessageWindows
    /\ alive[c]
    /\ ok => CanCreate
    /\ LET r == MessageWindowBuilder_build(windows, ok)
       IN /\ handle' = IF r.assigned THEN [handle EXCEPT ![c] = r.hwnd] ELSE handle
          /\ windows' = IF r.hwnd # NoHandle THEN AddWindow(windows, r.hwnd, r.create, c)
                        ELSE windows
          /\ last' = Built(c, NoArgs, r, handle[c])
    /\ UNCHANGED <<alive, handler0, registry, brushes, edit>>

\* ---------------------------------------------------------------- accessors
\* The value and the text the setters are called with.
AccessorValues == {11}
AccessorTexts == {"a"}
\* The arguments an accessor is called with: a bool (0 or 1), an optional
\* handle, a number (a size or a position is called with x = y), or nothing.
BoolSetters == {"set_enabled", "set_visible", "set_modified", "set_readonly"}
OptionSetters == {"set_bitmap", "set_icon", "set_font"}
NumberSetters == {"set_limit", "set_size", "set_position"}
AccessorInputs(op) ==
    IF op \in BoolSetters THEN {0, 1}
    ELSE IF op \in OptionSetters THEN {None} \cup AccessorValues
    ELSE IF op \in NumberSetters THEN AccessorValues
    ELSE {0}

NoRange == <<-1, -1>>

\* A property accessor of a control is called; a panic leaves the control as
\* it was (the caller may catch the unwind). The window of a RichTextBox
\* receives the calls made. For selection(), args.r is the range of the
\* set_selection that ran on the control just before, if one did.
Accessor(c, op, v, t, r, tg) ==
    /\ alive[c]
    /\ \/ c \in ImageFrames /\ op \in ImageFrameOps
       \/ c \in RichTextBoxes /\ op \in RichTextBoxOps
    /\ LET o == IF c \in ImageFrames THEN ImageFrameAccessor(op, handle[c], v)
                ELSE RichTextBoxAccessor(op, handle[c], v, t, r, tg, edit[c])
           justSet == /\ last.kind = "accessor" /\ last.ctrl = c
                      /\ last.args.op = "set_selection" /\ last.result = "Ok"
           given == IF op = "set_selection" THEN [op |-> op, r |-> r, target |-> tg]
                    ELSE IF op = "selection"
                    THEN [op |-> op, r |-> IF justSet THEN last.args.r ELSE NoRange]
                    ELSE [op |-> op]
       IN /\ last' = [kind |-> "accessor", ctrl |-> c, args |-> WithArgs(given),
                      result |-> IF o.panic THEN o.why ELSE "Ok", who |-> "",
                      before |-> handle[c], create |-> NoCreate, trace |-> o.calls,
                      hooks |-> {}, responses |-> {}, ret |-> o.ret]
          /\ edit' = IF c \in RichTextBoxes
                     THEN [edit EXCEPT ![c] = Receive(edit[c], o.calls)]
                     ELSE edit
    /\ UNCHANGED <<handle, alive, handler0, windows, registry, brushes>>

\* image() is called on an ImageFrame with the outputs holding `bitmap` and
\* `icon`; the window answers the two queries and the type check.
Image(c, bitmap, icon, bitmap_handle, icon_handle, is_bitmap) ==
    /\ c \in ImageFrames
    /\ alive[c]
    /\ LET o == ImageFrame_image_outputs(handle[c], bitmap, icon, bitmap_handle,
                                         icon_handle, is_bitmap)
       IN last' = [kind |-> "image", ctrl |-> c,
                   args |-> WithArgs([op |-> "image", bitmap |-> bitmap, icon |-> icon,
                                      answers |-> <<bitmap_handle, icon_handle>>,
                                      is_bitmap |-> is_bitmap]),
                   result |-> IF o.panic THEN o.why ELSE "Ok", who |-> "",
                   before |-> handle[c], create |-> NoCreate, trace |-> o.calls,
                   hooks |-> {}, responses |-> {}, ret |-> o.ret]
    /\ UNCHANGED <<handle, alive, handler0, windows, registry, brushes, edit>>

\* The user moves the caret or selects text in the window of a RichTextBox.
UserSelects(c, lo, hi) ==
    /\ c \in RichTextBoxes
    /\ handle[c] # NoHandle
    /\ lo <= hi /\ hi <= edit[c].len
    /\ edit' = [edit EXCEPT ![c] = [edit[c] EXCEPT !.lo = lo, !.hi = hi]]
    /\ last' = [NoOp EXCEPT !.kind = "user", !.ctrl = c, !.before = handle[c]]
    /\ UNCHANGED <<handle, alive, handler0, windows, registry, brushes>>

\* ----------------------------------------------------------------- dispatch
\* The window system delivers message msg with LPARAM l to window p: every raw
\* event handler bound to p is asked; the first Some(..) is the answer.
Dispatch(p, msg, l) ==
    /\ LET rs == {[parent |-> r.parent, id |-> r.id, resp |-> hook_callback(r, msg, l)] :
                    r \in {x \in registry : x.parent = p}}
       IN last' = [kind |-> "dispatch", ctrl |-> "",
                   args |-> WithArgs([parent |-> p, msg |-> msg, l |-> l]),
                   result |-> IF \E x \in rs : x.resp.some THEN "handled" ELSE "default",
                   who |-> "", before |-> NoHandle, create |-> NoCreate, trace |-> <<>>,
                   hooks |-> {}, responses |-> rs, ret |-> <<0, 0>>]
    /\ UNCHANGED <<handle, alive, handler0, windows, registry, brushes, edit>>

\* --------------------------------------------------------------------- drop
\* A drop that releases nothing.
ImageFrame_drop_forget(regs, handler) == [calls |-> <<>>, regs |-> regs]

\* impl Drop for ImageFrame: the calls it makes and the registry it leaves.
ImageFrame_drop(regs, handler) ==
    IF handler # NoHandler
    THEN [calls |-> <<Call("unbind_raw_event_handler", handler.handle, "", handler.id, 0)>>,
          regs |-> unbind_raw_event_handler(regs, handler)]
    ELSE [calls |-> <<>>, regs |-> regs]

\* An ImageFrame goes out of scope (RichTextBox and MessageWindow implement
\* no Drop: nothing runs when they do).
Drop(c) ==
    /\ c \in ImageFrames
    /\ alive[c]
    /\ alive' = [alive EXCEPT ![c] = FALSE]
    /\ LET r == ImageFrame_drop(registry, handler0[c])
       IN /\ registry' = r.regs
          /\ last' = [kind |-> "drop", ctrl |-> c, args |-> NoArgs, result |-> "Ok",
                      who |-> "", before |-> handle[c], create |-> NoCreate,
                      trace |-> r.calls, hooks |-> {}, responses |-> {}, ret |-> <<0, 0>>]
    /\ UNCHANGED <<handle, handler0, windows, brushes, edit>>

\* ------------------------------------------------------------ specification
Init ==
    /\ handle = [c \in Controls |-> NoHandle]
    /\ alive = [c \in Controls |-> TRUE]
    /\ handler0 = [c \in ImageFrames |-> NoHandler]
    /\ windows = [h \in {} |-> 0]
    /\ registry = {}
    /\ brushes = {}
    /\ edit = [c \in RichTextBoxes |-> NoEdit]
    /\ last = NoOp

\* The builders as their factories make them (ImageFrame::builder(),
\* RichTextBox::builder()), with the fields set that decide what a control
\* owns afterwards: the parent and the background colour.
ImageFrameLifeArgs ==
    {a \in ImageFrameArgs : a.flags = NoFlags /\ a.bitmap = None /\ a.icon = None}
RichTextBoxLifeArgs ==
    {a \in RichTextBoxArgs :
        a.flags = NoFlags /\ a.text = "" /\ a.limit = 0 /\ ~a.readonly /\ a.font = None}

BuildFrame ==
    \E c \in ImageFrames, a \in ImageFrameLifeArgs, ok \in BOOLEAN : ImageFrameBuild(c, a, ok)
BuildRich ==
    \E c \in RichTextBoxes, a \in RichTextBoxLifeArgs, ok \in BOOLEAN :
        RichTextBoxBuild(c, a, ok)
BuildMessageWindow ==
    \E c \in MessageWindows, ok \in BOOLEAN : MessageWindowBuild(c, ok)
CallAccessor ==
    \E c \in Controls, op \in ImageFrameOps \cup RichTextBoxOps, t \in AccessorTexts :
        \E v \in AccessorInputs(op) : Accessor(c, op, v, t, <<0, 0>>, "wide")
Deliver ==
    \E p \in Parents, msg \in Messages, l \in {NoHandle} \cup ChildHwnds : Dispatch(p, msg, l)
DropFrame ==
    \E c \in ImageFrames : Drop(c)

\* The text and the selection of a RichTextBox: builds with a text, the text and
\* selection accessors with every sample range on either target, and the user
\* selecting.
SelTexts == {"", "a", "ab"}
SelPositions == 0 .. 3 \cup {WordSize \div 2, WordSize - 1}
SelOps == {"selection", "clear", "text"}

BuildRichWithText ==
    \E c \in RichTextBoxes, a \in RichTextBoxLifeArgs, t \in SelTexts, ok \in BOOLEAN :
        RichTextBoxBuild(c, [a EXCEPT !.text = t], ok)
CallSelection ==
    \E c \in RichTextBoxes :
        \/ \E tg \in Targets, s \in SelPositions, e \in SelPositions :
              Accessor(c, "set_selection", 0, "", <<s, e>>, tg)
        \/ \E t \in SelTexts : Accessor(c, "set_text", 0, t, <<0, 0>>, "wide")
        \/ \E op \in SelOps : Accessor(c, op, 0, "", <<0, 0>>, "wide")
UserSelection ==
    \E c \in RichTextBoxes, lo \in 0 .. 2, hi \in 0 .. 2 : UserSelects(c, lo, hi)

\* image() with every content of the outputs and every answer of the window:
\* no handle, a bitmap handle or an icon handle to either query.
ImageAnswers == {0} \cup BitmapHandles \cup IconHandles
CallImage ==
    \E c \in ImageFrames, bitmap \in {None} \cup BitmapHandles, icon \in {None} \cup IconHandles,
       bitmap_handle \in ImageAnswers, icon_handle \in ImageAnswers, is_bitmap \in BOOLEAN :
        Image(c, bitmap, icon, bitmap_handle, icon_handle, is_bitmap)

\* The life of the controls: builds, accessors, messages delivered to the
\* parents, drops.
Next ==
    \/ BuildFrame
    \/ BuildRich
    \/ BuildRichWithText
    \/ BuildMessageWindow
    \/ CallAccessor
    \/ CallSelection
    \/ CallImage
    \/ UserSelection
    \/ Deliver
    \/ DropFrame

Spec == Init /\ [][Next]_vars

\* The image frames and their hooks: builds, messages delivered to the parents,
\* drops. (The other controls bind no hook, and an accessor changes nothing a
\* hook depends on.)
NextHooks ==
    \/ BuildFrame
    \/ Deliver
    \/ DropFrame

SpecHooks == Init /\ [][NextHooks]_vars

\* The handles of the controls of every type: builds and accessors. (A
\* background colour changes nothing a handle or an accessor depends on.)
BuildPlainFrame ==
    \E c \in ImageFrames, a \in {x \in ImageFrameLifeArgs : x.bg = None}, ok \in BOOLEAN :
        ImageFrameBuild(c, a, ok)

NextHandles ==
    \/ BuildPlainFrame
    \/ BuildRich
    \/ BuildMessageWindow
    \/ CallAccessor

SpecHandles == Init /\ [][NextHandles]_vars

\* The text and the selection of a rich text box: builds with a text, the text
\* and selection accessors, the user selecting.
NextSel ==
    \/ BuildRichWithText
    \/ CallSelection
    \/ UserSelection

SpecSel == Init /\ [][NextSel]_vars

\* The image of an image frame: builds and image().
NextImage ==
    \/ BuildPlainFrame
    \/ CallImage

SpecImage == Init /\ [][NextImage]_vars

\* One build with every combination of the builder's fields, into a control
\* that is unbound or was bound by an earlier build with the factory's fields.
InitBuild ==
    \E c \in Controls \cup {"none"} :
        /\ handle = [x \in Controls |-> IF x = c THEN FirstChild ELSE NoHandle]
        /\ alive = [x \in Controls |-> TRUE]
        /\ handler0 = [x \in ImageFrames |-> NoHandler]
        /\ windows = IF c = "none" THEN [h \in {} |-> 0]
                     ELSE [h \in {FirstChild} |->
                             IF c \in MessageWindows
                             THEN [class |-> "NWG_MESSAGE", parent |-> None, owner |-> c]
                             ELSE IF c \in ImageFrames
                             THEN [class |-> ImageFrame_class_name, parent |-> 1, owner |-> c]
                             ELSE [class |-> RichTextBox_class_name, parent |-> 1,
                                   owner |-> c]]
        /\ registry = {}
        /\ brushes = {}
        /\ edit = [x \in RichTextBoxes |-> NoEdit]
        /\ last = NoOp

NextBuild ==
    /\ last = NoOp
    /\ \/ \E c \in ImageFrames, a \in ImageFrameArgs, ok \in BOOLEAN :
             ImageFrameBuild(c, a, ok)
       \/ \E c \in RichTextBoxes, a \in RichTextBoxArgs, ok \in BOOLEAN :
             RichTextBoxBuild(c, a, ok)
       \/ \E c \in MessageWindows, ok \in BOOLEAN : MessageWindowBuild(c, ok)

SpecBuild == InitBuild /\ [][NextBuild]_vars


\* ------------------------------------------------------------------- claims
\* A window message (msg, w, l) was sent to window h by the last operation.
Sent(h, msg, w, l) ==
    \E i \in DOMAIN last.trace :
        last.trace[i] = Call("send_message", h, msg, w, l)
\* A helper or facility function was called on window h by the last operation.
Called(h, name, w) ==
    \E i \in DOMAIN last.trace :
        /\ last.trace[i].call = name /\ last.trace[i].hwnd = h /\ last.trace[i].w = w

\* C1 as stated: for EVERY control type, a build on which no parent was set
\* returns MissingParent naming the type and creates no window. (A
\* MessageWindowBuilder has no parent and its build creates the window.)
C1_NoParentEveryType ==
    (last.kind = "build" /\ last.args.parent = None) =>
        /\ last.result = "MissingParent"
        /\ last.who = ControlType(last.ctrl)
        /\ ~last.create.called

\* C1 amended: for ImageFrame and RichTextBox a build on which no parent was
\* set returns MissingParent naming the control type, creates no window and
\* makes no native call; a MessageWindow build takes no parent, never returns
\* MissingParent and always calls create_message_window.
C1_NoParent ==
    last.kind = "build" =>
        /\ (last.ctrl \in ImageFrames \cup RichTextBoxes /\ last.args.parent = None) =>
              /\ last.result = "MissingParent"
              /\ last.who = ControlType(last.ctrl)
              /\ ~last.create.called
              /\ last.trace = <<>>
              /\ handle[last.ctrl] = last.before
        /\ last.ctrl \in MessageWindows =>
              /\ last.result # "MissingParent"
              /\ last.create.called
              /\ last.create.parent = None

C1_Witness ==
    /\ last.kind = "build"
    /\ last.ctrl \in RichTextBoxes
    /\ last.args.parent = None
    /\ last.result = "MissingParent"
    /\ \E h \in DOMAIN windows : windows[h].owner \in MessageWindows

\* C2: a build is atomic. When it returns an error (MissingParent, or the
\* window system's failure as it came) the control's handle is what it was, no
\* setter ran and no hook was bound; when it returns Ok the handle is bound to
\* the new window and every post-creation step the builder asked for ran (the
\* bitmap, else the icon; the hook; the text, the limit, the read-only toggle,
\* the font).
C2_BuildAtomic ==
    last.kind = "build" =>
        LET c == last.ctrl
            a == last.args
            h == handle[c]
        IN /\ last.result \in {"Ok", "MissingParent", "CreateFailed"}
           /\ (last.result = "CreateFailed") <=> (last.create.called /\ h = last.before)
           /\ last.result # "Ok" =>
                 /\ h = last.before
                 /\ last.trace = <<>>
                 /\ last.hooks = {}
                 /\ registry = {}
                 /\ \A f \in ImageFrames : handler0[f] = NoHandler
           /\ last.result = "Ok" =>
                 /\ h # NoHandle
                 /\ h \in DOMAIN windows
                 /\ h # last.before
                 /\ c \in ImageFrames =>
                       /\ a.bitmap # None => Sent(h, "STM_SETIMAGE", IMAGE_BITMAP, a.bitmap)
                       /\ (a.bitmap = None /\ a.icon # None) =>
                             Sent(h, "STM_SETIMAGE", IMAGE_ICON, a.icon)
                       /\ a.bg # None =>
                             /\ handler0[c] = [handle |-> a.parent, id |-> h]
                             /\ \E r \in registry :
                                   r.parent = a.parent /\ r.id = h /\ r.child = h
                       /\ a.bg = None => (registry = {} /\ handler0[c] = NoHandler)
                 /\ c \in RichTextBoxes =>
                       /\ last.create.text = a.text
                       /\ a.limit > 0 => Sent(h, "EM_SETLIMITTEXT", a.limit, 0)
                       /\ a.readonly => Sent(h, "EM_SETREADONLY", 1, 0)
                       /\ a.font # None => Called(h, "set_window_font", a.font)

C2_Witness ==
    /\ last.kind = "build"
    /\ last.ctrl \in ImageFrames
    /\ last.result = "CreateFailed"
    /\ last.before # NoHandle
    /\ last.args.bg # None
    /\ last.args.bitmap # None

\* C3: when both a bitmap and an icon are given to the ImageFrame builder, the
\* content-mode style of the window is SS_BITMAP and the content set after
\* creation is the bitmap, the icon being ignored.
C3_BitmapPrecedence ==
    (/\ last.kind = "build"
     /\ last.ctrl \in ImageFrames
     /\ last.args.bitmap # None
     /\ last.args.icon # None
     /\ last.create.called) =>
        /\ last.create.style \cap SS_TYPEMASK = SS_BITMAP
        /\ last.result = "Ok" =>
              /\ Sent(handle[last.ctrl], "STM_SETIMAGE", IMAGE_BITMAP, last.args.bitmap)
              /\ ~Sent(handle[last.ctrl], "STM_SETIMAGE", IMAGE_ICON, last.args.icon)

\* C4: the flags a build hands to window creation are the explicit flags when
\* the caller gave some (the empty set included), else the type's default
\* flags (for an ImageFrame, plus the content-mode flag, which lies in the
\* style's type bits); the forced flags handed over are the type's forced
\* flags, and the style of the window contains them.
C4_ForcedFlags ==
    (last.kind = "build" /\ last.create.called /\ last.ctrl \notin MessageWindows) =>
        LET a == last.args
            cr == last.create
        IN /\ last.ctrl \in RichTextBoxes =>
                 /\ cr.flags = IF a.flags.some THEN a.flags.bits
                               ELSE WS_VISIBLE \cup ES_AUTOVSCROLL \cup ES_AUTOHSCROLL
                 /\ cr.forced = WS_BORDER \cup WS_CHILD \cup ES_MULTILINE
           /\ last.ctrl \in ImageFrames =>
                 /\ cr.flags \ SS_TYPEMASK = IF a.flags.some THEN a.flags.bits ELSE WS_VISIBLE
                 /\ cr.flags \cap SS_TYPEMASK \in {SS_BITMAP, SS_ICON}
                 /\ cr.forced = WS_CHILD \cup SS_NOTIFY \cup SS_CENTERIMAGE
           /\ cr.forced \subseteq cr.style
           /\ cr.flags \subseteq cr.style

C4_Witness ==
    /\ last.kind = "build"
    /\ last.ctrl \in RichTextBoxes
    /\ last.args.flags = SomeFlags({})
    /\ last.result = "Ok"
    /\ last.create.style = WS_BORDER \cup WS_CHILD \cup ES_MULTILINE


\* C5: on a control whose handle is unbound every property accessor (clear
\* included) fails with the not-bound panic and makes no native call, and so
\* would the background-colour hook attachment: it binds no handler and
\* creates no brush.
C5_UnboundGuard ==
    /\ (last.kind = "accessor" /\ last.before = NoHandle) =>
          /\ last.result = IF last.ctrl \in ImageFrames THEN ImageFrame_NOT_BOUND
                           ELSE RichTextBox_NOT_BOUND
          /\ last.trace = <<>>
          /\ handle[last.ctrl] = NoHandle
    /\ \A c \in ImageFrames, col \in Colors :
          (alive[c] /\ blank(handle[c])) =>
              LET r == ImageFrame_hook_background_color(windows, brushes, handle[c], col)
              IN r.panic /\ r.calls = <<>> /\ r.regs = {} /\ r.brushes = {}

C5_Witness ==
    /\ last.kind = "accessor"
    /\ last.args.op = "clear"
    /\ last.before = NoHandle
    /\ last.result = RichTextBox_NOT_BOUND
    /\ \E c \in Controls : handle[c] # NoHandle

\* C6: when a message is delivered to a parent, a callback bound to that parent
\* answers with the brush made for its own child if and only if the message is
\* WM_CTLCOLORSTATIC and the child in the message is the child it was bound
\* for, and declines otherwise; callbacks bound to other parents are not asked.
\* So at most one callback answers, with the brush of the child in the message,
\* and a message for a child without a hook gets the default handling.
C6_HookDispatch ==
    last.kind = "dispatch" =>
        LET msg == last.args.msg
            l == last.args.l
            p == last.args.parent
        IN /\ \A x \in last.responses :
                 /\ x.parent = p
                 /\ x.resp.some <=> (msg = "WM_CTLCOLORSTATIC" /\ l = x.id)
                 /\ x.resp.some =>
                       \E b \in brushes : b.id = x.resp.value /\ b.for = l
           /\ \A r \in registry : r.parent = p => \E x \in last.responses : x.id = r.id
           /\ Cardinality({x \in last.responses : x.resp.some}) <= 1
           /\ (last.result = "handled") <=>
                 (/\ msg = "WM_CTLCOLORSTATIC"
                  /\ \E r \in registry : r.parent = p /\ r.id = l)

C6_Witness ==
    /\ last.kind = "dispatch"
    /\ last.result = "handled"
    /\ Cardinality(last.responses) = 2
    /\ \E x \in last.responses : ~x.resp.some

\* C7: when an ImageFrame is dropped, one unbind of its handler is made if a
\* hook was attached, and afterwards the parent holds no callback keyed by the
\* control's handle nor by the handler's key; if no hook was attached the drop
\* makes no call.
C7_DropUnbinds ==
    last.kind = "drop" =>
        LET c == last.ctrl
            t == handler0[c]
        IN /\ ~alive[c]
           /\ last.result = "Ok"
           /\ t # NoHandler =>
                 /\ last.trace =
                       <<Call("unbind_raw_event_handler", t.handle, "", t.id, 0)>>
                 /\ ~\E r \in registry : r.parent = t.handle /\ r.id = t.id
                 /\ ~\E r \in registry : r.id = handle[c]
           /\ t = NoHandler =>
                 /\ last.trace = <<>>
                 /\ ~\E r \in registry : r.id = handle[c]

C7_Witness ==
    /\ last.kind = "drop"
    /\ handler0[last.ctrl] # NoHandler
    /\ handler0[last.ctrl].id = handle[last.ctrl]
    /\ registry # {}

\* The registrations made for the windows of control c.
HooksOf(c) == {r \in registry : windows[r.id].owner = c}

\* C8: in every reachable state at most one hook registration exists per
\* control, and none is left once the control is dropped.
C8_HooksOwned ==
    \A c \in ImageFrames :
        /\ Cardinality(HooksOf(c)) <= 1
        /\ ~alive[c] => HooksOf(c) = {}

\* C9 as stated: once a control's handle is bound, no operation changes it.
C9_BoundOnce ==
    [][\A c \in Controls : handle[c] # NoHandle => handle'[c] = handle[c]]_vars

\* C9 amended: a handle starts unbound and, once bound, is never unbound
\* again; it changes only in a build into that control that returns Ok, which
\* binds it to the window just created (a further successful build replaces
\* the handle by the new window's).
C9_NeverUnbound ==
    /\ \A c \in Controls : handle[c] = NoHandle
    /\ [][\A c \in Controls :
             /\ handle[c] # NoHandle => handle'[c] # NoHandle
             /\ handle'[c] # handle[c] =>
                   /\ last'.kind = "build"
                   /\ last'.ctrl = c
                   /\ last'.result = "Ok"
                   /\ last'.before = handle[c]
                   /\ handle'[c] \notin DOMAIN windows
                   /\ handle'[c] \in DOMAIN windows'
             /\ (last'.kind = "build" /\ last'.ctrl = c /\ last'.result = "Ok") =>
                   handle'[c] # handle[c]]_vars

C9_Witness ==
    /\ last.kind = "build"
    /\ last.result = "Ok"
    /\ last.before # NoHandle
    /\ handle[last.ctrl] # last.before


\* C10: when selection() runs on a RichTextBox right after set_selection(r)
\* with 0 <= r.start <= r.end <= the length of the text, it returns r; and
\* whatever ran before, the range selection() returns has start <= end.
C10_SelectionRoundTrip ==
    (last.kind = "accessor" /\ last.args.op = "selection" /\ last.result = "Ok") =>
        LET r == last.args.r
        IN /\ last.ret[1] <= last.ret[2]
           /\ (r # NoRange /\ 0 <= r[1] /\ r[1] <= r[2] /\ r[2] <= edit[last.ctrl].len) =>
                 last.ret = r

C10_Witness ==
    /\ last.kind = "accessor"
    /\ last.args.op = "selection"
    /\ last.result = "Ok"
    /\ last.args.r = <<1, 2>>
    /\ last.ret = <<1, 2>>

\* The place of a native call in the order of the post-creation steps: content
\* 1, character limit 2, read-only toggle 3, font 4, background-colour hook 5.
StepRank(call) ==
    IF call.call = "set_window_text" THEN 1
    ELSE IF call.call = "send_message" /\ call.msg = "STM_SETIMAGE" THEN 1
    ELSE IF call.call = "send_message" /\ call.msg = "EM_SETLIMITTEXT" THEN 2
    ELSE IF call.call = "send_message" /\ call.msg = "EM_SETREADONLY" THEN 3
    ELSE IF call.call = "set_window_font" THEN 4
    ELSE IF call.call \in {"get_window_parent", "CreateSolidBrush", "bind_raw_event_handler"}
    THEN 5
    ELSE 0
\* The ranks of the steps the last operation made, in the order it made them.
StepRanks == [i \in DOMAIN last.trace |-> StepRank(last.trace[i])]
\* Step k was made by the last operation.
Stepped(k) == \E i \in DOMAIN last.trace : StepRank(last.trace[i]) = k
\* The steps were made in the fixed order, the setters once each, all of them
\* on the control's bound handle (the hook is bound on the parent for it).
StepsInOrder ==
    /\ \A i \in DOMAIN last.trace :
          /\ StepRank(last.trace[i]) # 0
          /\ handle[last.ctrl] # NoHandle
          /\ IF last.trace[i].call = "bind_raw_event_handler"
             THEN last.trace[i].hwnd = last.args.parent /\ last.trace[i].w = handle[last.ctrl]
             ELSE last.trace[i].hwnd = handle[last.ctrl]
    /\ \A i, j \in DOMAIN last.trace :
          i < j => /\ StepRanks[i] <= StepRanks[j]
                   /\ StepRanks[i] = StepRanks[j] => StepRanks[i] = 5
\* The steps other than the rich text box's text are made exactly when asked for.
StepsAsRequested ==
    LET a == last.args
    IN /\ last.ctrl \in ImageFrames =>
             /\ Stepped(1) <=> (a.bitmap # None \/ a.icon # None)
             /\ ~Stepped(2) /\ ~Stepped(3) /\ ~Stepped(4)
             /\ Stepped(5) <=> a.bg # None
             /\ a.bg # None =>
                   last.trace[Len(last.trace)].call = "bind_raw_event_handler"
       /\ last.ctrl \in RichTextBoxes =>
             /\ Stepped(2) <=> a.limit > 0
             /\ Stepped(3) <=> a.readonly
             /\ Stepped(4) <=> a.font # None
             /\ ~Stepped(5)
       /\ last.ctrl \in MessageWindows => last.trace = <<>>

\* C11 as stated: after a successful creation build makes its post-creation
\* steps on the bound handle in the order content (ImageFrame: bitmap or icon;
\* RichTextBox: the initial text), limit (when > 0), read-only (when true),
\* font (when given), background-colour hook (when a colour was asked for).
C11_StepsAfterBound ==
    (last.kind = "build" /\ last.result = "Ok") =>
        /\ StepsInOrder
        /\ StepsAsRequested
        /\ (last.ctrl \in RichTextBoxes /\ last.args.text # "") =>
              /\ Stepped(1)
              /\ last.trace[1] = Call("set_window_text", handle[last.ctrl], last.args.text, 0, 0)

\* C11 amended: the initial text of a RichTextBox is no post-creation step, it
\* is handed to the window creation itself; after a successful creation build
\* makes, on the bound handle and in this order: for an ImageFrame the content
\* (bitmap, else icon) and then the background-colour hook when a colour was
\* asked for; for a RichTextBox the limit (when > 0), the read-only toggle
\* (when true), the font (when given). A build that fails makes no step.
C11_StepOrder ==
    last.kind = "build" =>
        /\ last.result = "Ok" =>
              /\ StepsInOrder
              /\ StepsAsRequested
              /\ last.ctrl \in RichTextBoxes =>
                    /\ ~Stepped(1)
                    /\ last.create.text = last.args.text
        /\ last.result # "Ok" => last.trace = <<>>

C11_Witness ==
    /\ last.kind = "build"
    /\ last.result = "Ok"
    /\ last.ctrl \in RichTextBoxes
    /\ last.args.text # ""
    /\ StepRanks = <<2, 3, 4>>
    /\ handle[last.ctrl] # last.before

\* C12: an image() that returns has cleared both outputs and set at most one:
\* the bitmap when the bitmap query answered a non-zero handle that is a
\* bitmap, else the icon when the icon query answered a non-zero handle, else
\* neither; whatever the outputs held before, they are never both Some. (On an
\* unbound control image() panics before it asks or clears anything.)
C12_ImageOneOutput ==
    last.kind = "image" =>
        LET bitmap_handle == last.args.answers[1]
            icon_handle == last.args.answers[2]
            bitmap == last.ret[1]
            icon == last.ret[2]
        IN /\ last.result = "Ok" =>
                 /\ last.before # NoHandle
                 /\ ~(bitmap # None /\ icon # None)
                 /\ IF bitmap_handle # 0 /\ last.args.is_bitmap
                    THEN bitmap = bitmap_handle /\ icon = None
                    ELSE IF icon_handle # 0
                    THEN bitmap = None /\ icon = icon_handle
                    ELSE bitmap = None /\ icon = None
                 /\ Sent(last.before, "STM_GETIMAGE", IMAGE_BITMAP, 0)
                 /\ Sent(last.before, "STM_GETIMAGE", IMAGE_ICON, 0)
           /\ last.result # "Ok" =>
                 /\ last.before = NoHandle
                 /\ last.result = ImageFrame_NOT_BOUND
                 /\ last.trace = <<>>

C12_Witness ==
    /\ last.kind = "image"
    /\ last.result = "Ok"
    /\ last.args.bitmap # None
    /\ last.args.icon # None
    /\ last.args.answers[1] # 0
    /\ last.args.answers[2] # 0
    /\ ~last.args.is_bitmap
    /\ last.ret = <<None, last.args.answers[2]>>

\* The brushes allocated for the windows of control c.
BrushesOf(c) == {b \in brushes : windows[b.for].owner = c}

\* C13: the brush made when a background-colour hook is attached is released
\* no later than the drop of its ImageFrame: once an ImageFrame is dropped no
\* brush made for it remains allocated.
C13_BrushReleased ==
    \A c \in ImageFrames : ~alive[c] => BrushesOf(c) = {}

====
